---- MODULE Spec2Model ----
(***************************************************************************)
(* Model of the QR receiver core: QRDataParser (data_parser.py),           *)
(* QRReceiverEngine (qr_receiver_engine.py) and ChunkAssembler             *)
(* (chunk_assembler.py).                                                   *)
(*                                                                         *)
(* process_qr_data is a coroutine.  Its only real suspension point is the  *)
(* asyncio.sleep in ChunkAssembler._assemble_chunks (taken at every tenth  *)
(* chunk, the first one included); everything before it and everything     *)
(* after it runs without yielding to the event loop, since no progress or  *)
(* session callback is registered anywhere in the repository.  A call is   *)
(* therefore two atomic steps, Process and Resume, when it runs the        *)
(* pipeline as far as the assemble loop, and one step, Process, otherwise. *)
(*                                                                         *)
(* Bytes are sequences of integers, hex strings and base64 strings are     *)
(* sequences of one-character strings.  Python's None and the empty value  *)
(* of a type are not told apart where the code only tests truthiness:      *)
(* <<>> is an absent checksum, "" an absent name, 0 an absent size.        *)
(***************************************************************************)
EXTENDS Integers, Sequences, FiniteSets, TLC

(***************************************************************************)
(* Bounds of the model and program constants.                              *)
(***************************************************************************)
\* number of process_qr_data calls started in one behaviour
MaxCalls == 4

\* the hours the clock may advance
MaxTicks == 2
\* QRReceiverConfig.max_chunks
max_chunks == 10000
\* the tasks that may run process_qr_data concurrently
Calls == {"c1", "c2"}

Range(s) == {s[i] : i \in 1..Len(s)}

(***************************************************************************)
(* hashlib.sha256(...).hexdigest() on the byte strings the model uses:     *)
(* the real digests.                                                       *)
(***************************************************************************)
sha256_hexdigest ==
     (<<>> :>
      <<"e","3","b","0","c","4","4","2","9","8","f","c","1","c","1","4","9","a","f","b","f","4","c","8","9","9","6","f","b","9","2","4","2","7","a","e","4","1","e","4","6","4","9","b","9","3","4","c","a","4","9","5","9","9","1","b","7","8","5","2","b","8","5","5">>)
  @@ (<<65>> :>
      <<"5","5","9","a","e","a","d","0","8","2","6","4","d","5","7","9","5","d","3","9","0","9","7","1","8","c","d","d","0","5","a","b","d","4","9","5","7","2","e","8","4","f","e","5","5","5","9","0","e","e","f","3","1","a","8","8","a","0","8","f","d","f","f","d">>)
  @@ (<<66>> :>
      <<"d","f","7","e","7","0","e","5","0","2","1","5","4","4","f","4","8","3","4","b","b","e","e","6","4","a","9","e","3","7","8","9","f","e","b","c","4","b","e","8","1","4","7","0","d","f","6","2","9","c","a","d","6","d","d","b","0","3","3","2","0","a","5","c">>)
  @@ (<<65,65>> :>
      <<"5","8","b","b","1","1","9","c","3","5","5","1","3","a","4","5","1","d","2","4","d","c","2","0","e","f","0","e","9","0","3","1","e","c","8","5","b","3","5","b","f","c","9","1","9","d","2","6","3","e","7","e","5","d","9","8","6","8","9","0","9","c","b","5">>)
  @@ (<<65,66>> :>
      <<"3","8","1","6","4","f","b","d","1","7","6","0","3","d","7","3","f","6","9","6","b","8","b","4","d","7","2","6","6","4","d","7","3","5","b","b","6","a","7","c","8","8","5","7","7","6","8","7","f","d","2","a","e","3","3","f","d","6","9","6","4","1","5","3">>)
  @@ (<<66,65>> :>
      <<"2","9","6","d","7","1","a","7","f","6","6","e","7","5","b","7","5","1","c","5","9","7","0","9","4","5","3","6","3","2","9","d","c","f","2","c","f","4","8","4","f","8","3","e","4","7","5","d","9","1","f","7","a","e","a","1","f","f","4","c","9","7","3","8">>)
  @@ (<<66,66>> :>
      <<"f","c","6","8","6","c","3","1","4","4","9","1","e","1","f","6","8","b","f","1","8","9","9","f","c","5","4","b","2","3","2","7","3","5","3","c","4","4","d","d","1","a","b","4","e","d","5","6","5","3","8","e","f","6","2","3","e","d","d","1","e","8","6","6">>)
  @@ (<<65,65,65>> :>
      <<"c","b","1","a","d","2","1","1","9","d","8","f","a","f","b","6","9","5","6","6","5","1","0","e","e","7","1","2","6","6","1","f","9","f","1","4","b","8","3","3","8","5","0","0","6","e","f","9","2","a","e","c","4","7","f","5","2","3","a","3","8","3","5","8">>)
  @@ (<<65,65,66>> :>
      <<"c","5","0","1","2","8","c","f","9","9","c","0","6","e","8","6","0","a","f","b","f","f","c","c","4","d","d","d","a","1","5","8","d","d","f","9","b","1","e","7","c","c","e","0","3","8","9","9","2","5","1","c","f","6","6","7","2","2","9","0","6","6","a","b">>)
  @@ (<<65,66,65>> :>
      <<"3","8","1","4","c","4","1","d","3","0","b","8","d","8","0","1","8","1","2","e","0","c","0","f","7","b","6","6","1","3","d","7","e","0","a","4","9","a","a","c","e","2","d","9","c","d","b","5","d","2","9","6","5","b","c","c","7","2","4","9","a","3","2","4">>)
  @@ (<<65,66,66>> :>
      <<"d","a","f","c","2","9","0","5","1","0","d","6","d","a","a","0","f","1","f","f","0","0","a","4","a","c","5","5","a","f","5","3","7","7","d","7","a","f","2","a","5","9","6","2","9","9","3","b","b","7","2","c","2","3","a","8","6","1","2","0","7","f","e","0">>)
  @@ (<<66,65,65>> :>
      <<"3","7","e","0","6","3","0","b","2","7","4","6","b","9","5","c","2","e","2","0","5","a","6","5","0","2","3","0","8","7","1","2","4","3","4","e","e","9","c","3","4","3","5","c","f","7","6","f","a","5","f","b","3","b","e","a","e","6","3","4","e","c","2","a">>)
  @@ (<<66,65,66>> :>
      <<"5","a","4","2","1","8","6","5","e","0","6","1","6","3","d","2","8","5","d","b","e","8","5","7","d","6","3","b","4","4","5","9","8","0","f","9","b","f","6","3","0","9","c","6","8","e","c","5","5","8","c","6","2","f","f","6","3","1","5","4","0","0","b","a">>)
  @@ (<<66,66,65>> :>
      <<"7","3","5","f","f","2","1","0","9","a","0","6","3","e","e","1","1","7","8","a","b","d","3","2","0","3","1","5","3","f","9","2","f","8","d","c","8","3","a","9","a","e","7","c","9","3","b","7","a","7","7","f","c","e","3","4","3","7","2","c","6","5","a","8">>)
  @@ (<<66,66,66>> :>
      <<"d","c","d","b","7","0","4","1","0","9","a","4","5","4","7","8","4","b","8","1","2","2","9","d","2","b","0","5","f","3","6","8","6","9","2","e","7","5","8","b","f","a","3","3","c","b","6","1","d","0","4","c","1","b","9","3","7","9","1","b","0","2","7","3">>)

(***************************************************************************)
(* str.lower() on hex characters.                                          *)
(***************************************************************************)
lower_char(c) ==
  CASE c = "A" -> "a" [] c = "B" -> "b" [] c = "C" -> "c"
    [] c = "D" -> "d" [] c = "E" -> "e" [] c = "F" -> "f"
    [] OTHER -> c

lower(s) == [i \in 1..Len(s) |-> lower_char(s[i])]

(***************************************************************************)
(* base64.b64decode (non-validating): characters outside the alphabet are  *)
(* discarded, the rest is decoded four characters at a time, and a length  *)
(* that is no multiple of four is "Incorrect padding".                     *)
(***************************************************************************)
B64Alphabet ==
  << "A","B","C","D","E","F","G","H","I","J","K","L","M","N","O","P",
     "Q","R","S","T","U","V","W","X","Y","Z","a","b","c","d","e","f",
     "g","h","i","j","k","l","m","n","o","p","q","r","s","t","u","v",
     "w","x","y","z","0","1","2","3","4","5","6","7","8","9","+","/" >>

B64Val(c) == (CHOOSE i \in 1..Len(B64Alphabet) : B64Alphabet[i] = c) - 1

IsB64Char(c) == c = "=" \/ c \in Range(B64Alphabet)

B64Error == << -1 >>

B64Quad(q) ==
  LET v1 == B64Val(q[1])
      v2 == B64Val(q[2])
  IN  IF q[3] = "=" THEN << v1 * 4 + (v2 \div 16) >>
      ELSE LET v3 == B64Val(q[3])
           IN  IF q[4] = "="
               THEN << v1 * 4 + (v2 \div 16), (v2 % 16) * 16 + (v3 \div 4) >>
               ELSE << v1 * 4 + (v2 \div 16), (v2 % 16) * 16 + (v3 \div 4),
                       (v3 % 4) * 64 + B64Val(q[4]) >>

RECURSIVE B64Groups(_)
B64Groups(s) ==
  IF s = <<>> THEN <<>>
  ELSE B64Quad(SubSeq(s, 1, 4)) \o B64Groups(SubSeq(s, 5, Len(s)))

b64decode(s) ==
  LET kept == SelectSeq(s, IsB64Char)
  IN  IF Len(kept) % 4 # 0 \/ (kept # <<>> /\ (kept[1] = "=" \/ kept[2] = "="))
      THEN B64Error
      ELSE B64Groups(kept)

(***************************************************************************)
(* QR payloads.  A payload is the text of one QR code.  kind "json" is a   *)
(* text that json.loads turns into the dict whose keys are `has` plus the  *)
(* optional keys with a non-default value; kind "text" is any other        *)
(* non-empty text, given by its split on ':' (parts, each a sequence of    *)
(* characters); kind "empty" is the empty string.                          *)
(***************************************************************************)
RequiredFields == << "fmt", "index", "total", "data_b64" >>

Payload0 ==
  [ kind |-> "json", fmt |-> "qrfile/v2",
    has |-> Range(RequiredFields), ints |-> {"index", "total"},
    index |-> 0, total |-> 1, data_b64 |-> <<>>,
    chunk_sha256 |-> <<>>, chunk_hash |-> <<>>,
    name |-> "", size |-> 0, file_sha256 |-> <<>>,
    compression_algorithm |-> "", encryption_enabled |-> FALSE,
    rs_enabled |-> FALSE, rs_blocks |-> 0, rs_parity |-> 0,
    parts |-> <<>> ]

\* str.lower() on the format tags the model uses
lower_fmt(f) ==
  CASE f = "QRFILE/V2" -> "qrfile/v2"
    [] f = "QRFILE/V1" -> "qrfile/v1"
    [] OTHER -> f

Digits == << "0", "1", "2", "3", "4", "5", "6", "7", "8", "9" >>

IsDigits(s) == s # <<>> /\ \A i \in 1..Len(s) : s[i] \in Range(Digits)

DigitVal(c) == (CHOOSE i \in 1..10 : Digits[i] = c) - 1

\* int() of a string of decimal digits
RECURSIVE int_of(_)
int_of(s) ==
  IF s = <<>> THEN 0
  ELSE 10 * int_of(SubSeq(s, 1, Len(s) - 1)) + DigitVal(s[Len(s)])

\* the file names the model uses, as str values
str_of(s) ==
  CASE s = << "f" >> -> "f"
    [] s = << "g" >> -> "g"
    [] OTHER -> "other"

\* ':'.join(parts)
RECURSIVE join_colon(_)
join_colon(ps) ==
  IF ps = <<>> THEN <<>>
  ELSE IF Len(ps) = 1 THEN ps[1]
  ELSE ps[1] \o << ":" >> \o join_colon(Tail(ps))

(***************************************************************************)
(* QRDataParser                                                            *)
(***************************************************************************)
create_error_result(error_message) ==
  [ chunk_index |-> -1, chunk_data |-> <<>>, chunk_hash |-> <<>>,
    filename |-> "", total_chunks |-> 0, file_size |-> 0, file_hash |-> <<>>,
    format_version |-> "unknown", compression_algorithm |-> "",
    encryption_enabled |-> FALSE, reed_solomon_enabled |-> FALSE,
    reed_solomon_blocks |-> 0, reed_solomon_parity |-> 0,
    is_valid |-> FALSE, error |-> error_message ]

\* re.match(r'^F:[^:]+:I:\d+:T:\d+:D:', qr_data), on the split text
simple_pattern(parts) ==
  /\ Len(parts) >= 8
  /\ parts[1] = << "F" >>
  /\ parts[2] # <<>>
  /\ parts[3] = << "I" >>
  /\ IsDigits(parts[4])
  /\ parts[5] = << "T" >>
  /\ IsDigits(parts[6])
  /\ parts[7] = << "D" >>

detect_format(p) ==
  IF p.kind = "json" /\ "fmt" \in p.has /\ lower_fmt(p.fmt) = "qrfile/v2"
  THEN "qrfile/v2"
  ELSE IF p.kind = "json" /\ "fmt" \in p.has /\ lower_fmt(p.fmt) = "qrfile/v1"
  THEN "qrfile/v1"
  ELSE IF p.kind = "text" /\ simple_pattern(p.parts)
  THEN "simple"
  ELSE "unknown"

parse_qrfile_v2(p) ==
  IF Range(RequiredFields) \ p.has # {}
  THEN create_error_result("Missing required field")
  ELSE IF "index" \notin p.ints \/ p.index < 0
  THEN create_error_result("Invalid chunk index")
  ELSE IF "total" \notin p.ints \/ p.total <= 0
  THEN create_error_result("Invalid total chunks")
  ELSE IF p.index >= p.total
  THEN create_error_result("Chunk index exceeds total")
  ELSE IF b64decode(p.data_b64) = B64Error
  THEN create_error_result("Base64 decode error")
  ELSE [ chunk_index |-> p.index, chunk_data |-> b64decode(p.data_b64),
         chunk_hash |-> p.chunk_sha256, filename |-> p.name,
         total_chunks |-> p.total, file_size |-> p.size,
         file_hash |-> p.file_sha256, format_version |-> "qrfile/v2",
         compression_algorithm |-> p.compression_algorithm,
         encryption_enabled |-> p.encryption_enabled,
         reed_solomon_enabled |-> p.rs_enabled,
         reed_solomon_blocks |-> p.rs_blocks,
         reed_solomon_parity |-> p.rs_parity,
         is_valid |-> TRUE, error |-> "" ]

parse_qrfile_v1(p) ==
  IF Range(RequiredFields) \ p.has # {}
  THEN create_error_result("Missing required field")
  ELSE IF "index" \notin p.ints \/ p.index < 0
  THEN create_error_result("Invalid chunk index")
  ELSE IF "total" \notin p.ints \/ p.total <= 0
  THEN create_error_result("Invalid total chunks")
  ELSE IF b64decode(p.data_b64) = B64Error
  THEN create_error_result("Base64 decode error")
  ELSE [ chunk_index |-> p.index, chunk_data |-> b64decode(p.data_b64),
         chunk_hash |-> p.chunk_hash, filename |-> p.name,
         total_chunks |-> p.total, file_size |-> p.size,
         file_hash |-> <<>>, format_version |-> "qrfile/v1",
         compression_algorithm |-> "", encryption_enabled |-> FALSE,
         reed_solomon_enabled |-> FALSE,
         reed_solomon_blocks |-> 0, reed_solomon_parity |-> 0,
         is_valid |-> TRUE, error |-> "" ]

parse_simple_format(p) ==
  LET parts == p.parts
  IN  IF Len(parts) < 6 \/ parts[1] # << "F" >> \/ parts[3] # << "I" >>
         \/ parts[5] # << "T" >>
      THEN create_error_result("Invalid simple format structure")
      ELSE IF Len(parts) < 7
      THEN create_error_result("Simple format parse error")
      ELSE IF parts[7] # << "D" >>
      THEN create_error_result("Invalid simple format structure")
      ELSE IF ~IsDigits(parts[4]) \/ ~IsDigits(parts[6])
      THEN create_error_result("Simple format parse error")
      ELSE LET data_part == IF Len(parts) > 7
                            THEN join_colon(SubSeq(parts, 8, Len(parts)))
                            ELSE parts[7]
           IN  IF b64decode(data_part) = B64Error
               THEN create_error_result("Base64 decode error")
               ELSE [ chunk_index |-> int_of(parts[4]),
                      chunk_data |-> b64decode(data_part),
                      chunk_hash |-> <<>>, filename |-> str_of(parts[2]),
                      total_chunks |-> int_of(parts[6]), file_size |-> 0,
                      file_hash |-> <<>>, format_version |-> "simple",
                      compression_algorithm |-> "",
                      encryption_enabled |-> FALSE,
                      reed_solomon_enabled |-> FALSE,
                      reed_solomon_blocks |-> 0, reed_solomon_parity |-> 0,
                      is_valid |-> TRUE, error |-> "" ]

parse(p) ==
  IF p.kind = "empty"
  THEN create_error_result("Empty or invalid QR data")
  ELSE LET format_type == detect_format(p)
       IN  IF format_type = "qrfile/v2" THEN parse_qrfile_v2(p)
           ELSE IF format_type = "qrfile/v1" THEN parse_qrfile_v1(p)
           ELSE IF format_type = "simple" THEN parse_simple_format(p)
           ELSE create_error_result("Unsupported QR format")

(***************************************************************************)
(* State of the program.                                                   *)
(***************************************************************************)
VARIABLES
  sessions,            \* the ReceptionSession objects ever created, by handle
  active_sessions,     \* QRReceiverEngine.active_sessions: id -> handle
  completed_sessions,  \* QRReceiverEngine.completed_sessions: id -> handle
  stats,               \* QRReceiverEngine.stats
  aes_available,       \* ChunkAssembler.encryption_handlers["aes-256"]["available"]
  reed_solomon_decoder,  \* ChunkAssembler.reed_solomon_decoder is not None
  memory_only,         \* QRReceiverConfig.memory_only
  now,                 \* time.time(), in seconds since the engine was built
  scenario,            \* which payloads the QR source delivers
  pc,                  \* per task: "idle", or "assembling" (in asyncio.sleep)
  frame,               \* per task: locals of the suspended process_qr_data call
  ncalls,              \* number of process_qr_data calls started
  last                 \* the step taken last and what it returned

vars == << sessions, active_sessions, completed_sessions, stats,
           aes_available, reed_solomon_decoder, memory_only, now, scenario,
           pc, frame, ncalls, last >>

(***************************************************************************)
(* ReceptionSession                                                        *)
(***************************************************************************)
\* the keys of session.received_chunks
chunk_indices(session) ==
  {session.received_chunks[i].index : i \in 1..Len(session.received_chunks)}

is_complete(session) == Len(session.received_chunks) = session.total_chunks

get_missing_chunks(session) ==
  (0..(session.total_chunks - 1)) \ chunk_indices(session)

\* round(q, 1) of the quotient q[1] / q[2], in tenths
round_1(q) == (20 * q[1] + q[2]) \div (2 * q[2])

get_status_summary(session) ==
  [ session_id |-> session.session_id,
    filename |-> session.filename,
    state |-> session.state,
    percentage |-> round_1(session.progress_percentage),
    chunks_received |-> Len(session.received_chunks),
    total_chunks |-> session.total_chunks,
    missing_chunks |-> Cardinality(get_missing_chunks(session)),
    bytes_received |-> session.bytes_received,
    error_count |-> session.error_count,
    integrity_failures |-> session.integrity_failures,
    failed_chunks |-> Cardinality(session.failed_chunks) ]

(***************************************************************************)
(* QRReceiverEngine: the synchronous pieces of process_qr_data             *)
(***************************************************************************)
\* hashlib.md5("name_total_size").hexdigest()[:16]; the digest is taken to
\* be injective on the joined string, so the id is the joined triple.
generate_session_id_with_index(parsed_data) ==
  << IF parsed_data.filename = "" THEN "unknown" ELSE parsed_data.filename,
     parsed_data.total_chunks,
     parsed_data.file_size,
     parsed_data.chunk_index >>

generate_session_id(parsed_data) ==
  << IF parsed_data.filename = "" THEN "unknown" ELSE parsed_data.filename,
     parsed_data.total_chunks,
     parsed_data.file_size >>

NoSummary ==
  [ session_id |-> << "", 0, 0 >>, filename |-> "", state |-> "none",
    percentage |-> 0, chunks_received |-> 0, total_chunks |-> 0, missing_chunks |-> 0,
    bytes_received |-> 0, error_count |-> 0, integrity_failures |-> 0,
    failed_chunks |-> 0 ]

\* the early return of process_qr_data: `if not parsed_data.is_valid`
parse_failed_ignored(parsed_data) == FALSE

parse_failed(parsed_data) == ~parsed_data.is_valid

\* a response dict: `key` is the key its text is stored under ("message" or
\* "error"), has_session tells whether it has a "session" key
create_success_response(session, message) ==
  [ success |-> TRUE, key |-> "message", message |-> message,
    has_session |-> TRUE, session |-> get_status_summary(session) ]

create_error_response(message) ==
  [ success |-> FALSE, key |-> "error", message |-> message,
    has_session |-> FALSE, session |-> NoSummary ]

new_session(session_id, parsed_data) ==
  [ session_id |-> session_id,
    filename |-> IF parsed_data.filename = "" THEN "transfer_T.tar.gz"
                 ELSE parsed_data.filename,
    total_chunks |-> parsed_data.total_chunks,
    expected_size |-> parsed_data.file_size,
    expected_hash |-> parsed_data.file_hash,
    received_chunks |-> <<>>,
    state |-> "receiving",
    compression_algorithm |-> parsed_data.compression_algorithm,
    encryption_enabled |-> parsed_data.encryption_enabled,
    reed_solomon_enabled |-> parsed_data.reed_solomon_enabled,
    format_version |-> parsed_data.format_version,
    bytes_received |-> 0,
    error_count |-> 0,
    failed_chunks |-> {},
    integrity_failures |-> 0,
    runs |-> 0,    \* history: how often _complete_session was entered
    saved |-> <<>>,    \* history: the buffers handed to _save_file
    last_activity |-> 0,   \* set to time.time() by the caller
    progress_percentage |-> << 0, 1 >>,   \* a quotient; 0.0 at first
    offered |-> {} ]   \* history: the indices process_qr_data has seen for it

\* _get_or_create_session without its look-up in active_sessions
get_or_create_session_always_new(E, parsed_data) ==
  [ E EXCEPT
      !.sessions = Append(@, [ new_session(generate_session_id(parsed_data),
                                           parsed_data)
                                 EXCEPT !.last_activity = E.now ]),
      !.active = [ i \in DOMAIN E.active
                          \cup {generate_session_id(parsed_data)} |->
                     IF i = generate_session_id(parsed_data)
                     THEN Len(E.sessions) + 1 ELSE E.active[i] ],
      !.stats.total_sessions = @ + 1,
      !.handle = Len(E.sessions) + 1 ]

\* the engine state after _get_or_create_session, and the session's handle
get_or_create_session(E, parsed_data) ==
  LET session_id == generate_session_id(parsed_data)
  IN  IF session_id \notin DOMAIN E.active
      THEN [ E EXCEPT
               !.sessions = Append(@, [ new_session(session_id, parsed_data)
                                          EXCEPT !.last_activity = E.now ]),
               !.active = @ @@ (session_id :> (Len(E.sessions) + 1)),
               !.stats.total_sessions = @ + 1,
               !.handle = Len(E.sessions) + 1 ]
      ELSE [ E EXCEPT !.handle = E.active[session_id] ]

verify_chunk_integrity(parsed_data) ==
  IF parsed_data.chunk_data = <<>> \/ parsed_data.chunk_hash = <<>>
  THEN TRUE
  ELSE LET actual_hash == sha256_hexdigest[parsed_data.chunk_data]
           expected == parsed_data.chunk_hash
           n == IF Len(expected) < Len(actual_hash) THEN Len(expected)
                ELSE Len(actual_hash)
       IN  SubSeq(actual_hash, 1, n) = expected

\* the duplicate check of _process_chunk
is_duplicate_unchecked(session, chunk_index) == FALSE

is_duplicate(session, chunk_index) == chunk_index \in chunk_indices(session)

\* _process_chunk taking the file checksum, the algorithm and the flags of the
\* frame it stores for the session's
process_chunk_adopting_metadata(E, parsed_data) ==
  LET h == E.handle
      session == E.sessions[h]
      chunk_index == parsed_data.chunk_index
      chunk_info == [ index |-> chunk_index, data |-> parsed_data.chunk_data,
                      hash |-> parsed_data.chunk_hash ]
      size == Len(parsed_data.chunk_data)
      stored == [ session EXCEPT
                    !.received_chunks = Append(@, chunk_info),
                    !.bytes_received = @ + size,
                    !.expected_hash = parsed_data.file_hash,
                    !.compression_algorithm =
                       parsed_data.compression_algorithm,
                    !.encryption_enabled = parsed_data.encryption_enabled,
                    !.reed_solomon_enabled =
                       parsed_data.reed_solomon_enabled ]
  IN  IF is_duplicate(session, chunk_index)
      THEN [ E EXCEPT !.result =
               create_success_response(session, "Duplicate chunk ignored") ]
      ELSE IF parsed_data.chunk_hash # <<>> /\ ~verify_chunk_integrity(parsed_data)
      THEN [ E EXCEPT
               !.sessions[h].integrity_failures = @ + 1,
               !.sessions[h].failed_chunks = @ \cup {chunk_index},
               !.result = create_error_response(
                            "Chunk integrity verification failed") ]
      ELSE [ E EXCEPT
               !.sessions[h] = stored,
               !.stats.total_chunks_received = @ + 1,
               !.stats.total_bytes_received = @ + size,
               !.result = create_success_response(stored, "Chunk received") ]

\* the engine state after _process_chunk on session E.handle, with the
\* response in E.result
process_chunk(E, parsed_data) ==
  LET h == E.handle
      session == E.sessions[h]
      chunk_index == parsed_data.chunk_index
      chunk_info == [ index |-> chunk_index, data |-> parsed_data.chunk_data,
                      hash |-> parsed_data.chunk_hash ]
      size == Len(parsed_data.chunk_data)
      stored == [ session EXCEPT
                    !.received_chunks = Append(@, chunk_info),
                    !.bytes_received = @ + size ]
  IN  IF is_duplicate(session, chunk_index)
      THEN [ E EXCEPT !.result =
               create_success_response(session, "Duplicate chunk ignored") ]
      ELSE IF parsed_data.chunk_hash # <<>> /\ ~verify_chunk_integrity(parsed_data)
      THEN [ E EXCEPT
               !.sessions[h].integrity_failures = @ + 1,
               !.sessions[h].failed_chunks = @ \cup {chunk_index},
               !.result = create_error_response(
                            "Chunk integrity verification failed") ]
      ELSE [ E EXCEPT
               !.sessions[h] = stored,
               !.stats.total_chunks_received = @ + 1,
               !.stats.total_bytes_received = @ + size,
               !.result = create_success_response(stored, "Chunk received") ]

\* ReceptionSession.update_progress, for the fields the model keeps
update_progress(E) ==
  [ E EXCEPT
      !.sessions[E.handle].progress_percentage =
         IF E.sessions[E.handle].total_chunks > 0
         THEN << Len(E.sessions[E.handle].received_chunks) * 100,
                 E.sessions[E.handle].total_chunks >>
         ELSE @,
      !.sessions[E.handle].last_activity = E.now ]

\* a file check that accepts every buffer
verify_file_integrity_skipped(session, file_data) == TRUE

verify_file_integrity(session, file_data) ==
  IF session.expected_hash = <<>>
  THEN TRUE
  ELSE LET actual_hash == sha256_hexdigest[file_data]
           expected == session.expected_hash
       IN  IF Len(expected) < Len(actual_hash)
           THEN SubSeq(actual_hash, 1, Len(expected)) = expected
           ELSE actual_hash = expected

(***************************************************************************)
(* ChunkAssembler                                                          *)
(***************************************************************************)
validate_chunks(session) ==
  /\ Len(session.received_chunks) = session.total_chunks
  /\ get_missing_chunks(session) = {}

\* sorted(session.received_chunks.items()): the dict's items, in insertion
\* order, sorted by key
RECURSIVE insert_sorted(_, _)
insert_sorted(item, sorted) ==
  IF sorted = <<>> THEN << item >>
  ELSE IF item.index < sorted[1].index THEN << item >> \o sorted
  ELSE << sorted[1] >> \o insert_sorted(item, Tail(sorted))

\* the items left in the dict's insertion order
unsorted_items(items) == items

RECURSIVE sorted_items(_)
sorted_items(items) ==
  IF items = <<>> THEN <<>>
  ELSE insert_sorted(items[Len(items)],
                     sorted_items(SubSeq(items, 1, Len(items) - 1)))

\* the BytesIO buffer after every chunk of the snapshot has been written
RECURSIVE write_chunks(_)
write_chunks(sorted_chunks) ==
  IF sorted_chunks = <<>> THEN <<>>
  ELSE sorted_chunks[1].data \o write_chunks(Tail(sorted_chunks))

\* session.reed_solomon_blocks is no attribute of ReceptionSession: building
\* the decoder raises inside the inner try, whose handler appends a warning
\* and returns the data.  The first definition is the outer handler's
\* return of None in its place.
reed_solomon_failure_aborts(data, session) == <<>>

apply_reed_solomon_correction(data, session) == data

reed_solomon_warnings(data, session) ==
  << "Reed-Solomon correction failed - using raw data" >>

\* a placeholder in the source: with the cipher library present the data
\* is returned as received, without it the stage returns None (<<>>)
decrypt_data(data, available) == IF available THEN data ELSE <<>>

decrypt_warnings(data, available) ==
  IF available
  THEN << "Decryption not implemented - data may be encrypted" >>
  ELSE <<>>

\* compression_handlers: the registered algorithms and their "available"
\* flag on an interpreter without the third-party codecs
compression_handlers ==
  [ lzma |-> TRUE, brotli |-> FALSE, zstandard |-> FALSE, lz4 |-> FALSE,
    gzip |-> TRUE, bz2 |-> TRUE, store |-> TRUE ]

\* handler["decompress"]: a stream is its magic byte 31 followed by the
\* stored bytes; anything else raises
codec_decompress(data) ==
  IF data # <<>> /\ data[1] = 31 THEN Tail(data) ELSE <<>>

\* the stage handing its input on whatever the algorithm
decompress_data_unchecked(data, session) == data

decompress_data(data, session) ==
  IF session.compression_algorithm \notin DOMAIN compression_handlers
  THEN <<>>
  ELSE IF ~compression_handlers[session.compression_algorithm]
  THEN <<>>
  ELSE IF session.compression_algorithm = "store"
  THEN data
  ELSE codec_decompress(data)

\* what ChunkAssembler.__init__ found installed
AssemblerEnv == [ aes |-> aes_available, rs |-> reed_solomon_decoder ]

\* the optional stages of assemble_file, in the order of its blocks; the
\* first definition has the last two blocks exchanged
optional_stages_exchanged == << "error_correct", "decompress", "decrypt" >>

optional_stages == << "error_correct", "decrypt", "decompress" >>

\* the condition of a stage's block
stage_enabled(stage, session, env) ==
  CASE stage = "error_correct" -> session.reed_solomon_enabled /\ env.rs
    [] stage = "decrypt" -> session.encryption_enabled
    [] stage = "decompress" -> /\ session.compression_algorithm # ""
                               /\ session.compression_algorithm # "store"

\* the call in a stage's block
stage_apply(stage, data, session, env) ==
  CASE stage = "error_correct" -> apply_reed_solomon_correction(data, session)
    [] stage = "decrypt" -> decrypt_data(data, env.aes)
    [] stage = "decompress" -> decompress_data(data, session)

\* what the call appends to progress.warnings
stage_warnings(stage, data, session, env) ==
  CASE stage = "error_correct" -> reed_solomon_warnings(data, session)
    [] stage = "decrypt" -> decrypt_warnings(data, env.aes)
    [] stage = "decompress" -> <<>>

\* the blocks of assemble_file run one after the other on the buffer; a
\* stage that leaves no data (None or no bytes) ends the run.  run.log
\* lists the stages executed with the buffer each took and gave.
RECURSIVE run_stages(_, _, _, _)
run_stages(stages, run, session, env) ==
  IF stages = <<>> \/ run.data = <<>>
  THEN run
  ELSE IF ~stage_enabled(Head(stages), session, env)
  THEN run_stages(Tail(stages), run, session, env)
  ELSE run_stages(
         Tail(stages),
         [ data |-> stage_apply(Head(stages), run.data, session, env),
           log |-> Append(run.log,
                     [ stage |-> Head(stages), input |-> run.data,
                       output |-> stage_apply(Head(stages), run.data,
                                              session, env) ]),
           warnings |-> run.warnings
                          \o stage_warnings(Head(stages), run.data,
                                            session, env) ],
         session, env)

\* assemble_file from the assembled buffer on
assemble_file_run(assembled_data, session, env) ==
  run_stages(optional_stages,
             [ data |-> assembled_data,
               log |-> << [ stage |-> "assemble", input |-> <<>>,
                            output |-> assembled_data ] >>,
               warnings |-> <<>> ],
             session, env)

\* the data assemble_file returns, <<>> for None
assemble_stages(assembled_data, session, env) ==
  assemble_file_run(assembled_data, session, env).data

\* QRReceiverEngine.get_session_status: the summary, or NoSummary for None
get_session_status(session_id) ==
  IF session_id \in DOMAIN active_sessions
  THEN get_status_summary(sessions[active_sessions[session_id]])
  ELSE IF session_id \in DOMAIN completed_sessions
  THEN get_status_summary(sessions[completed_sessions[session_id]])
  ELSE NoSummary

(***************************************************************************)
(* QRReceiverEngine._complete_session                                      *)
(***************************************************************************)
\* up to the call of assemble_file
begin_complete_session(E) ==
  [ E EXCEPT !.sessions[E.handle].state = "verifying",
             !.sessions[E.handle].runs = @ + 1 ]

\* `if not self.config.memory_only:` before the call of _save_file
save_file_called(E) == ~E.memory_only

\* a completion that returns after a failed run without moving the session
end_complete_session_failed_stays(E, h, file_data) ==
  LET id == E.sessions[h].session_id
      ok == file_data # <<>> /\ verify_file_integrity(E.sessions[h], file_data)
      E1 == [ E EXCEPT !.sessions[h].state = "completed",
                       !.stats.completed_sessions = @ + 1,
                       !.sessions[h].saved =
                          IF save_file_called(E)
                          THEN Append(@, file_data) ELSE @ ]
      E2 == [ E1 EXCEPT !.completed =
                [ i \in DOMAIN E1.completed \cup {id} |->
                    IF i = id THEN h ELSE E1.completed[i] ] ]
  IN  IF ~ok
      THEN [ E EXCEPT !.sessions[h].state = "failed",
                      !.stats.failed_sessions = @ + 1 ]
      ELSE IF id \in DOMAIN E2.active
      THEN [ E2 EXCEPT !.active =
               [ i \in DOMAIN E2.active \ {id} |-> E2.active[i] ] ]
      ELSE [ E2 EXCEPT !.sessions[h].state = "failed",
                       !.sessions[h].error_count = @ + 1 ]

\* a completion that empties the active table instead of deleting one entry
end_complete_session_clearing_active(E, h, file_data) ==
  LET id == E.sessions[h].session_id
      ok == file_data # <<>> /\ verify_file_integrity(E.sessions[h], file_data)
      E1 == IF ok
            THEN [ E EXCEPT !.sessions[h].state = "completed",
                            !.stats.completed_sessions = @ + 1,
                            !.sessions[h].saved =
                               IF save_file_called(E)
                               THEN Append(@, file_data) ELSE @ ]
            ELSE [ E EXCEPT !.sessions[h].state = "failed",
                            !.stats.failed_sessions = @ + 1 ]
      E2 == [ E1 EXCEPT !.completed =
                [ i \in DOMAIN E1.completed \cup {id} |->
                    IF i = id THEN h ELSE E1.completed[i] ] ]
  IN  IF id \in DOMAIN E2.active
      THEN [ E2 EXCEPT !.active = [ i \in {} |-> 0 ] ]
      ELSE [ E2 EXCEPT !.sessions[h].state = "failed",
                       !.sessions[h].error_count = @ + 1 ]

\* from the return of assemble_file on; file_data = <<>> stands for None
end_complete_session(E, h, file_data) ==
  LET id == E.sessions[h].session_id
      ok == file_data # <<>> /\ verify_file_integrity(E.sessions[h], file_data)
      E1 == IF ok
            THEN [ E EXCEPT !.sessions[h].state = "completed",
                            !.stats.completed_sessions = @ + 1,
                            !.sessions[h].saved =
                               IF save_file_called(E)
                               THEN Append(@, file_data) ELSE @ ]
            ELSE [ E EXCEPT !.sessions[h].state = "failed",
                            !.stats.failed_sessions = @ + 1 ]
      E2 == [ E1 EXCEPT !.completed =
                [ i \in DOMAIN E1.completed \cup {id} |->
                    IF i = id THEN h ELSE E1.completed[i] ] ]
  IN  IF id \in DOMAIN E2.active
      THEN [ E2 EXCEPT !.active =
               [ i \in DOMAIN E2.active \ {id} |-> E2.active[i] ] ]
      ELSE \* del raises KeyError: the except branch
           [ E2 EXCEPT !.sessions[h].state = "failed",
                       !.sessions[h].error_count = @ + 1 ]

(***************************************************************************)
(* The payloads of the model.                                              *)
(***************************************************************************)
A_b64 == << "Q", "Q", "=", "=" >>
B_b64 == << "Q", "g", "=", "=" >>
AB_b64 == << "Q", "U", "I", "=" >>

digest_prefix(data, n) == SubSeq(sha256_hexdigest[data], 1, n)

v2_frame(name, size, total, index, data_b64) ==
  [ Payload0 EXCEPT !.name = name, !.size = size, !.total = total,
                    !.index = index, !.data_b64 = data_b64 ]

\* a three-chunk transfer "f" of the bytes A, B, AB
f0 == [ v2_frame("f", 4, 3, 0, A_b64) EXCEPT
          !.chunk_sha256 = digest_prefix(<< 65 >>, 16) ]
f1 == v2_frame("f", 4, 3, 1, B_b64)
f2 == v2_frame("f", 4, 3, 2, AB_b64)
\* chunk 1 with a checksum that is not a prefix of its digest
f1_bad == [ f1 EXCEPT !.chunk_sha256 = digest_prefix(<< 65 >>, 16) ]
\* chunk 1 with no bytes and a checksum that is not a prefix of its digest
f1_empty_bad == [ v2_frame("f", 4, 3, 1, <<>>) EXCEPT
                    !.chunk_sha256 = digest_prefix(<< 65 >>, 16) ]

InputsTransfer == { f0, f1, f2, f1_bad, f1_empty_bad }

\* a one-chunk transfer "g": with a right and with a wrong file checksum,
\* declared encrypted, and declaring more chunks than max_chunks
g_good == [ v2_frame("g", 1, 1, 0, A_b64) EXCEPT
              !.file_sha256 = digest_prefix(<< 65 >>, 16) ]
g_wrong == [ v2_frame("g", 1, 1, 0, B_b64) EXCEPT
               !.file_sha256 = digest_prefix(<< 65 >>, 16) ]
g_encrypted == [ v2_frame("g", 1, 1, 0, A_b64) EXCEPT
                   !.encryption_enabled = TRUE ]
g_huge == v2_frame("g", 1, max_chunks + 1, 0, A_b64)
empty_payload == [ Payload0 EXCEPT !.kind = "empty" ]

InputsSingle == { g_good, g_wrong, g_encrypted, g_huge, empty_payload }

\* two frames of a transfer without a name and with the name "unknown",
\* and a two-chunk transfer "f" of the bytes A, B, among payloads that are not
\* frames: the empty text, a cut-off JSON text, the sender's colon form
\* F:<index>:<total>:<base64>, an unknown format tag, a missing field, an
\* index or a total of the wrong type or out of range, and base64 texts of
\* a wrong length
h0 == v2_frame("f", 2, 2, 0, A_b64)
h1 == v2_frame("f", 2, 2, 1, B_b64)
broken_json == [ Payload0 EXCEPT !.kind = "text", !.parts = << << "{" >> >> ]
sender_simple == [ Payload0 EXCEPT !.kind = "text",
                     !.parts = << << "F" >>, << "0" >>, << "2" >>, A_b64 >> ]
m_format == [ h0 EXCEPT !.fmt = "qrfile/v3" ]
m_missing == [ h0 EXCEPT !.has = @ \ {"data_b64"} ]
m_index_type == [ h0 EXCEPT !.ints = @ \ {"index"} ]
m_index_negative == [ h0 EXCEPT !.index = -1 ]
m_index_exceeds == [ h0 EXCEPT !.index = 2 ]
m_total_zero == [ h0 EXCEPT !.total = 0 ]
m_base64 == [ h0 EXCEPT !.data_b64 = << "Q", "Q" >> ]

u_absent == v2_frame("", 2, 2, 0, A_b64)
u_named == v2_frame("unknown", 2, 2, 1, B_b64)

InputsMalformed == { h0, h1, u_absent, u_named, empty_payload, broken_json, sender_simple,
                     m_format, m_missing, m_index_type, m_index_negative,
                     m_index_exceeds, m_total_zero, m_base64 }

\* frames of the two older formats: a two-chunk v1 transfer "f" of A, B and
\* a v1 frame with index 5 of 2; the colon form F:f:I:<i>:T:<t>:D:<base64>
\* with index 0 of 2, index 3 of 2 and index 0 of 0; a v1 frame whose
\* base64 text has a character outside the alphabet; the one v1 frame of a
\* transfer "e" of no bytes
v1_frame(name, size, total, index, data_b64) ==
  [ v2_frame(name, size, total, index, data_b64) EXCEPT !.fmt = "qrfile/v1" ]

simple_text(name, index, total, data_b64) ==
  [ Payload0 EXCEPT !.kind = "text",
      !.parts = << << "F" >>, name, << "I" >>, index, << "T" >>, total,
                   << "D" >>, data_b64 >> ]

v1_0 == v1_frame("f", 2, 2, 0, A_b64)
v1_1 == v1_frame("f", 2, 2, 1, B_b64)
v1_out == v1_frame("f", 2, 2, 5, B_b64)
v1_foreign == v1_frame("f", 2, 2, 1, << "Q", "g", "!", "=", "=" >>)
s_0 == simple_text(<< "f" >>, << "0" >>, << "2" >>, A_b64)
s_out == simple_text(<< "f" >>, << "3" >>, << "2" >>, B_b64)
s_zero == simple_text(<< "f" >>, << "0" >>, << "0" >>, A_b64)

v1_empty == v1_frame("e", 0, 1, 0, <<>>)

InputsLegacy == { v1_0, v1_1, v1_out, v1_foreign, v1_empty, s_0, s_out,
                  s_zero }

\* one-chunk transfers "g" that declare stages: compression "store", an
\* algorithm that is not registered, one that is registered but not
\* available, error correction, and all three optional stages at once
\* (error correction, encryption, "gzip" over a stream of the byte A)
gzip_A_b64 == << "H", "0", "E", "=" >>
p_store == [ v2_frame("g", 1, 1, 0, A_b64) EXCEPT
               !.compression_algorithm = "store" ]
p_unregistered == [ v2_frame("g", 1, 1, 0, gzip_A_b64) EXCEPT
                      !.compression_algorithm = "zip9" ]
p_unavailable == [ v2_frame("g", 1, 1, 0, gzip_A_b64) EXCEPT
                     !.compression_algorithm = "brotli" ]
p_rs == [ v2_frame("g", 1, 1, 0, A_b64) EXCEPT !.rs_enabled = TRUE ]
p_all == [ v2_frame("g", 1, 1, 0, gzip_A_b64) EXCEPT
             !.rs_enabled = TRUE, !.encryption_enabled = TRUE,
             !.compression_algorithm = "gzip" ]

InputsStages == { p_store, p_unregistered, p_unavailable, p_rs, p_all }

\* checksums in other spellings: chunk 0 of a two-chunk transfer "f" with
\* the first 16 hex characters of its digest in lower and in upper case,
\* chunk 1 with its whole digest and with the digest of another chunk, and
\* a one-chunk transfer "g" whose file checksum is in upper case
upper_char(c) ==
  CASE c = "a" -> "A" [] c = "b" -> "B" [] c = "c" -> "C"
    [] c = "d" -> "D" [] c = "e" -> "E" [] c = "f" -> "F"
    [] OTHER -> c

upper(t) == [i \in 1..Len(t) |-> upper_char(t[i])]

k_prefix == [ h0 EXCEPT !.chunk_sha256 = digest_prefix(<< 65 >>, 16) ]
k_upper == [ h0 EXCEPT !.chunk_sha256 = upper(digest_prefix(<< 65 >>, 16)) ]
k_full == [ h1 EXCEPT !.chunk_sha256 = digest_prefix(<< 66 >>, 64) ]
k_wrong == [ h1 EXCEPT !.chunk_sha256 = digest_prefix(<< 65 >>, 16) ]
k_file_upper == [ v2_frame("g", 1, 1, 0, A_b64) EXCEPT
                    !.file_sha256 = upper(digest_prefix(<< 65 >>, 16)) ]

InputsChecksums == { k_prefix, k_upper, k_full, k_wrong, k_file_upper }

\* what a reference sender does to the data before chunking it, in its
\* encode order: compression to a stream that codec_decompress inverts, a
\* cipher that changes every byte, and a systematic error-correcting code
\* that appends a parity byte
sender_compress(data) == << 31 >> \o data

sender_encrypt(data) == [i \in 1..Len(data) |-> (data[i] + 1) % 256]

RECURSIVE byte_sum(_)
byte_sum(data) ==
  IF data = <<>> THEN 0 ELSE (data[1] + byte_sum(Tail(data))) % 256

sender_fec_encode(data) == data \o << byte_sum(data) >>

\* what a decoder for that code gives for a code word: the data without the
\* parity byte
is_code_word(data) ==
  /\ data # <<>>
  /\ data[Len(data)] = byte_sum(SubSeq(data, 1, Len(data) - 1))

fec_decode(data) == SubSeq(data, 1, Len(data) - 1)

\* the transfer "r" of the byte A: compressed, encrypted, FEC-encoded in one
\* block with one parity byte (the bytes 32, 66, 98) and cut into the chunks
\* 32, 66 and 98
original_data == << 65 >>
encoded_data == sender_fec_encode(sender_encrypt(sender_compress(original_data)))
encoded_0_b64 == << "I", "E", "I", "=" >>
encoded_1_b64 == << "Y", "g", "=", "=" >>
r_frame(index, data_b64) ==
  [ v2_frame("r", 1, 2, index, data_b64) EXCEPT
      !.rs_enabled = TRUE, !.rs_blocks = 1, !.rs_parity = 1,
      !.encryption_enabled = TRUE, !.compression_algorithm = "gzip" ]
r0 == r_frame(0, encoded_0_b64)
r1 == r_frame(1, encoded_1_b64)

\* chunk 1 of the same transfer in a frame that declares none of the stages
r1_plain == v2_frame("r", 1, 2, 1, encoded_1_b64)

InputsRoundTrip == { r0, r1, r1_plain }

Scenarios == { "transfer", "single", "malformed", "legacy", "stages",
               "checksums", "roundtrip" }

\* two one-chunk transfers "f" and "g", for the runs with a clock
x_f == v2_frame("f", 1, 1, 0, A_b64)
x_g == v2_frame("g", 1, 1, 0, B_b64)

InputsEviction == { x_f, x_g }

\* the two frames of the two-chunk transfer "f", sent again and again
InputsRestart == { h0, h1 }

Inputs(name) ==
  CASE name = "transfer" -> InputsTransfer
    [] name = "single" -> InputsSingle
    [] name = "malformed" -> InputsMalformed
    [] name = "legacy" -> InputsLegacy
    [] name = "stages" -> InputsStages
    [] name = "checksums" -> InputsChecksums
    [] name = "roundtrip" -> InputsRoundTrip
    [] name = "eviction" -> InputsEviction
    [] name = "restart" -> InputsRestart

\* whether the optional libraries were importable matters only where a
\* payload declares the stage that needs them; elsewhere they are absent.
\* Either library is absent or present for the transfer "r", and both are
\* present for the one-chunk transfers that declare stages.
AesChoices(name) ==
  CASE name \in {"single", "roundtrip"} -> BOOLEAN
    [] name = "stages" -> {TRUE}
    [] OTHER -> {FALSE}

DecoderChoices(name) ==
  CASE name = "roundtrip" -> BOOLEAN
    [] name = "stages" -> {TRUE}
    [] OTHER -> {FALSE}

\* QRReceiverConfig.memory_only after __post_init__: TRUE with the default
\* air_gapped, either value for a configuration that is not air-gapped
MemoryOnlyChoices(name) == IF name = "checksums" THEN BOOLEAN ELSE {TRUE}

(***************************************************************************)
(* Initial state: QRReceiverEngine.__init__                                *)
(***************************************************************************)
NoFrame == [ session |-> 0, sorted_chunks |-> <<>>,
             result |-> create_error_response("") ]

NoStep == [ kind |-> "none", call |-> "", payload |-> Payload0,
            parsed |-> create_error_result(""),
            handle |-> 0, created |-> FALSE,
            result |-> create_error_response(""), returned |-> FALSE,
            assembled |-> <<>>, file_data |-> <<>>,
            stages |-> <<>>, warnings |-> <<>>, triggered |-> FALSE,
            max_age_hours |-> 0, cleaned |-> 0 ]

InitIn(names) ==
  /\ sessions = <<>>
  /\ active_sessions = << >>
  /\ completed_sessions = << >>
  /\ stats = [ total_sessions |-> 0, completed_sessions |-> 0,
               failed_sessions |-> 0, total_chunks_received |-> 0,
               total_bytes_received |-> 0 ]
  /\ scenario \in names
  /\ now = 0
  /\ aes_available \in AesChoices(scenario)
  /\ reed_solomon_decoder \in DecoderChoices(scenario)
  /\ memory_only \in MemoryOnlyChoices(scenario)
  /\ pc = [ c \in Calls |-> "idle" ]
  /\ frame = [ c \in Calls |-> NoFrame ]
  /\ ncalls = 0
  /\ last = NoStep

Init == InitIn(Scenarios)

Engine ==
  [ sessions |-> sessions, active |-> active_sessions,
    completed |-> completed_sessions, stats |-> stats,
    memory_only |-> memory_only, now |-> now,
    handle |-> 0, result |-> create_error_response("") ]

SetEngine(E) ==
  /\ sessions' = E.sessions
  /\ active_sessions' = E.active
  /\ completed_sessions' = E.completed
  /\ stats' = E.stats

(***************************************************************************)
(* process_qr_data, from its start to its return or to the sleep in        *)
(* _assemble_chunks                                                        *)
(***************************************************************************)
\* history: the index of a frame that passes the chunk checksum is noted in
\* every session object of the frame's identity that has not ended
note_offered(E, parsed_data) ==
  LET id == generate_session_id(parsed_data)
      passes == parsed_data.chunk_hash = <<>>
                  \/ verify_chunk_integrity(parsed_data)
  IN  [ E EXCEPT !.sessions =
          [ i \in DOMAIN E.sessions |->
              IF /\ passes
                 /\ E.sessions[i].session_id = id
                 /\ E.sessions[i].state \notin {"completed", "failed"}
              THEN [ E.sessions[i] EXCEPT
                       !.offered = @ \cup {parsed_data.chunk_index} ]
              ELSE E.sessions[i] ] ]

\* one process_qr_data call, among at most max_calls calls
ProcessUpTo(c, p, max_calls) ==
  /\ pc[c] = "idle"
  /\ ncalls < max_calls
  /\ ncalls' = ncalls + 1
  /\ \E parsed_data \in {parse(p)} :
         IF parse_failed(parsed_data)
         THEN /\ UNCHANGED << sessions, active_sessions, completed_sessions,
                              stats, pc, frame >>
              /\ last' = [ NoStep EXCEPT
                             !.kind = "process", !.call = c,
                             !.payload = p,
                             !.parsed = parsed_data, !.returned = TRUE,
                             !.result = create_error_response(
                                          "Invalid QR data format") ]
         ELSE \E E1 \in {get_or_create_session(Engine, parsed_data)} :
              \E E2 \in {note_offered(
                            update_progress(process_chunk(E1, parsed_data)),
                            parsed_data)} :
              \E h \in {E2.handle} :
              \E complete \in {is_complete(E2.sessions[h])} :
              \E E3 \in {IF complete THEN begin_complete_session(E2) ELSE E2} :
              \E sorted_chunks \in
                    {sorted_items(E3.sessions[h].received_chunks)} :
              \E suspends \in {/\ complete
                                /\ validate_chunks(E3.sessions[h])
                                /\ sorted_chunks # <<>>} :
              \E E4 \in {IF complete /\ ~suspends
                          THEN end_complete_session(E3, h, <<>>)
                          ELSE E3} :
                  /\ SetEngine(E4)
                  /\ pc' = [ pc EXCEPT ![c] = IF suspends THEN "assembling"
                                              ELSE "idle" ]
                  /\ frame' = [ frame EXCEPT ![c] =
                                  IF suspends
                                  THEN [ session |-> h,
                                         sorted_chunks |-> sorted_chunks,
                                         result |-> E2.result ]
                                  ELSE NoFrame ]
                  /\ last' = [ NoStep EXCEPT
                                 !.kind = "process", !.call = c,
                                 !.payload = p,
                                 !.parsed = parsed_data, !.handle = h,
                                 !.created = (Len(E1.sessions) > Len(sessions)),
                                 !.result = E2.result,
                                 !.returned = ~suspends,
                                 !.triggered = complete ]
  /\ UNCHANGED << aes_available, reed_solomon_decoder, memory_only, now,
                  scenario >>

Process(c, p) == ProcessUpTo(c, p, MaxCalls)

(***************************************************************************)
(* process_qr_data, from the wake-up in _assemble_chunks to its return     *)
(***************************************************************************)
Resume(c) ==
  /\ pc[c] = "assembling"
  /\ \E h \in {frame[c].session} :
     \E assembled_data \in {write_chunks(frame[c].sorted_chunks)} :
     \E run \in {assemble_file_run(assembled_data, sessions[h],
                                    AssemblerEnv)} :
     \E file_data \in {run.data} :
         /\ SetEngine(end_complete_session(Engine, h, file_data))
         /\ last' = [ NoStep EXCEPT
                        !.kind = "resume", !.call = c, !.handle = h,
                        !.result = frame[c].result, !.returned = TRUE,
                        !.assembled = assembled_data,
                        !.file_data = file_data,
                        !.stages = IF file_data # <<>>
                                   THEN Append(run.log,
                                          [ stage |-> "verify",
                                            input |-> file_data,
                                            output |-> file_data ])
                                   ELSE run.log,
                        !.warnings = run.warnings,
                        !.triggered = TRUE ]
  /\ pc' = [ pc EXCEPT ![c] = "idle" ]
  /\ frame' = [ frame EXCEPT ![c] = NoFrame ]
  /\ UNCHANGED << aes_available, reed_solomon_decoder, memory_only, now,
                  scenario, ncalls >>

Next ==
  \/ \E c \in Calls : \E p \in Inputs(scenario) : Process(c, p)
  \/ \E c \in Calls : Resume(c)

Spec == Init /\ [][Next]_vars

(***************************************************************************)
(* The engine with its clock running and its owner calling                 *)
(* cleanup_old_sessions between the steps of the process_qr_data calls.    *)
(***************************************************************************)
\* an hour passes
Tick ==
  /\ now < MaxTicks * 3600
  /\ now' = now + 3600
  /\ last' = [ NoStep EXCEPT !.kind = "tick" ]
  /\ UNCHANGED << sessions, active_sessions, completed_sessions, stats,
                  aes_available, reed_solomon_decoder, memory_only, scenario,
                  pc, frame, ncalls >>

\* the test of cleanup_old_sessions, and one that also takes the sessions
\* that are exactly max_age_hours old
is_old_or_at_cutoff(session, cutoff_time) ==
  session.last_activity <= cutoff_time

is_old(session, cutoff_time) == session.last_activity < cutoff_time

cleanup_old_sessions(max_age_hours) ==
  /\ \E cutoff_time \in {now - (max_age_hours * 3600)} :
     \E to_remove \in {{ id \in DOMAIN completed_sessions :
                           is_old(sessions[completed_sessions[id]],
                                  cutoff_time) }} :
         /\ completed_sessions' =
               [ id \in DOMAIN completed_sessions \ to_remove |->
                   completed_sessions[id] ]
         /\ last' = [ NoStep EXCEPT
                        !.kind = "cleanup", !.returned = TRUE,
                        !.max_age_hours = max_age_hours,
                        !.cleaned = Cardinality(to_remove) ]
  /\ UNCHANGED << sessions, active_sessions, stats, aes_available,
                  reed_solomon_decoder, memory_only, now, scenario, pc,
                  frame, ncalls >>

\* the ages the owner asks for
MaxAges == { 0, 1 }

InitCleanup == InitIn({"eviction"})

NextCleanup ==
  \/ \E c \in Calls : \E p \in Inputs(scenario) : Process(c, p)
  \/ \E c \in Calls : Resume(c)
  \/ Tick
  \/ \E max_age_hours \in MaxAges : cleanup_old_sessions(max_age_hours)

SpecCleanup == InitCleanup /\ [][NextCleanup]_vars

(***************************************************************************)
(* Notions the properties are stated in.                                   *)
(***************************************************************************)
Handles == 1..Len(sessions)

Terminal(session) == session.state \in {"completed", "failed"}

\* the truncated-prefix rule: expected is a leading part of the digest
TruncatedPrefixMatch(expected, digest) ==
  /\ Len(expected) <= Len(digest)
  /\ \A i \in 1..Len(expected) : expected[i] = digest[i]

\* the bytes stored for index i
ChunkBytes(session, i) ==
  LET k == CHOOSE j \in 1..Len(session.received_chunks) :
             session.received_chunks[j].index = i
  IN  session.received_chunks[k].data

\* the chunk bytes of indices 0..n-1, concatenated in ascending order
RECURSIVE ConcatInIndexOrder(_, _)
ConcatInIndexOrder(session, n) ==
  IF n = 0 THEN <<>>
  ELSE ConcatInIndexOrder(session, n - 1) \o ChunkBytes(session, n - 1)

\* the step taken last was a process_qr_data call that resolved a session
AppliedFrame == last.kind = "process" /\ last.handle # 0

(***************************************************************************)
(* C1: for every session the reconstruction pipeline (_complete_session)   *)
(* is started at most once, under any interleaving of process_qr_data      *)
(* calls, duplicates arriving during the pipeline's sleep included.        *)
(***************************************************************************)
C1_PipelineStartedOnce == \A h \in Handles : sessions[h].runs <= 1

(***************************************************************************)
(* C2: two process_qr_data calls are never in progress on the same         *)
(* session: no call applies a frame to a session while another call is     *)
(* suspended inside that session's pipeline run.                           *)
(***************************************************************************)
C2_OneCallPerSession ==
  AppliedFrame =>
    \A c \in Calls \ {last.call} :
      pc[c] = "assembling" => frame[c].session # last.handle

C4_AssembledInIndexOrder ==
  last.kind = "resume" =>
    last.assembled =
      ConcatInIndexOrder(sessions[last.handle],
                         sessions[last.handle].total_chunks)

\* three chunks that arrived last-index-first have been assembled
C4_Witness ==
  /\ last.kind = "resume"
  /\ sessions[last.handle].total_chunks = 3
  /\ sessions[last.handle].received_chunks[1].index = 2
  /\ sessions[last.handle].received_chunks[3].index = 0
  /\ last.assembled = << 65, 66, 65, 66 >>

(***************************************************************************)
(* C5: a frame whose chunk checksum does not match its chunk bytes is      *)
(* answered with the integrity failure and its chunk is not stored.        *)
(***************************************************************************)
ChecksumMismatch(parsed_data) ==
  /\ parsed_data.chunk_hash # <<>>
  /\ ~TruncatedPrefixMatch(parsed_data.chunk_hash,
                           sha256_hexdigest[parsed_data.chunk_data])

C5_MismatchNotStored ==
  ( /\ AppliedFrame
    /\ ChecksumMismatch(last.parsed)
    /\ last.result.message # "Duplicate chunk ignored" )
  => /\ ~last.result.success
     /\ last.result.message = "Chunk integrity verification failed"
     /\ last.parsed.chunk_index \notin chunk_indices(sessions[last.handle])
     /\ last.parsed.chunk_index \in sessions[last.handle].failed_chunks
     /\ sessions[last.handle].integrity_failures >= 1

(***************************************************************************)
(* C6: a session whose final buffer does not match the expected file       *)
(* checksum by the truncated-prefix rule is never COMPLETED and never      *)
(* counted in stats.completed_sessions.                                    *)
(***************************************************************************)
FileChecksumMismatch(session, file_data) ==
  /\ session.expected_hash # <<>>
  /\ ~TruncatedPrefixMatch(session.expected_hash, sha256_hexdigest[file_data])

C6_MismatchNeverCompleted ==
  [][ /\ ( last'.kind = "resume"
          /\ FileChecksumMismatch(sessions[last'.handle], last'.file_data) )
        => /\ sessions'[last'.handle].state = "failed"
           /\ stats'.completed_sessions = stats.completed_sessions
      \* and COMPLETED is entered by no other way than a run that matched
      /\ \A h \in 1..Len(sessions') :
           ( /\ sessions'[h].state = "completed"
             /\ (h \in Handles => sessions[h].state # "completed") )
           => /\ last'.kind = "resume"
              /\ last'.handle = h
              /\ ~FileChecksumMismatch(sessions[h], last'.file_data)
    ]_vars

\* a pipeline run has produced bytes that fail the file checksum
C6_Witness ==
  /\ last.kind = "resume"
  /\ last.file_data # <<>>
  /\ FileChecksumMismatch(sessions[last.handle], last.file_data)
  /\ sessions[last.handle].state = "failed"

(***************************************************************************)
(* C7: a session that declares encryption, for which the engine has no key *)
(* material, never becomes COMPLETED and its ciphertext is never the final *)
(* buffer.                                                                 *)
(***************************************************************************)
C7_EncryptedFailsHard ==
  /\ \A h \in Handles :
       sessions[h].encryption_enabled => sessions[h].state # "completed"
  /\ last.kind = "resume" /\ sessions[last.handle].encryption_enabled
       => last.file_data = <<>>

(***************************************************************************)
(* C8: a frame declaring more chunks than max_chunks is answered with an   *)
(* error and leaves no session of its identity in either table.            *)
(***************************************************************************)
C8_CapacityRefused ==
  ( /\ last.kind = "process"
    /\ last.parsed.is_valid
    /\ last.parsed.total_chunks > max_chunks )
  => /\ ~last.result.success
     /\ generate_session_id(last.parsed) \notin
          DOMAIN active_sessions \cup DOMAIN completed_sessions

(***************************************************************************)
(* C9: a session whose state is COMPLETED or FAILED never changes again:   *)
(* not its state, its chunk table or its counters.                         *)
(***************************************************************************)
C9_TerminalImmutable ==
  [][ \A h \in Handles :
        Terminal(sessions[h])
        => /\ sessions'[h].state = sessions[h].state
           /\ sessions'[h].received_chunks = sessions[h].received_chunks
           /\ sessions'[h].bytes_received = sessions[h].bytes_received
           /\ sessions'[h].error_count = sessions[h].error_count
           /\ sessions'[h].integrity_failures = sessions[h].integrity_failures
    ]_vars

(***************************************************************************)
(* C10: after a frame that duplicates a chunk of a COMPLETED session of    *)
(* its identity has been processed, no session of that identity is active  *)
(* in the RECEIVING state and get_session_status reports the completed     *)
(* session.                                                                *)
(***************************************************************************)
C10_DuplicateDoesNotReopen ==
  LET id == generate_session_id(last.parsed)
  IN  ( /\ last.kind = "process"
        /\ last.parsed.is_valid
        /\ id \in DOMAIN completed_sessions
        /\ sessions[completed_sessions[id]].state = "completed"
        /\ last.parsed.chunk_index \in
             chunk_indices(sessions[completed_sessions[id]])
        /\ ChunkBytes(sessions[completed_sessions[id]],
                      last.parsed.chunk_index) = last.parsed.chunk_data )
      => /\ ~( /\ id \in DOMAIN active_sessions
               /\ sessions[active_sessions[id]].state = "receiving" )
         /\ get_session_status(id) =
              get_status_summary(sessions[completed_sessions[id]])

(***************************************************************************)
(* C11: a process_qr_data call whose payload fails to parse returns an     *)
(* error result and changes nothing of the engine: no session object is    *)
(* created, the active and the completed table, every session (its chunk   *)
(* table and counters) and the engine statistics are as they were.         *)
(***************************************************************************)
C11_ParseFailureTouchesNothing ==
  [][ (last'.kind = "process" /\ ~last'.parsed.is_valid)
      => /\ ~last'.result.success
         /\ last'.returned
         /\ sessions' = sessions
         /\ active_sessions' = active_sessions
         /\ completed_sessions' = completed_sessions
         /\ stats' = stats ]_vars

\* a payload that does not parse has been processed while a session with a
\* stored chunk was active
C11_Witness ==
  /\ last.kind = "process"
  /\ ~last.parsed.is_valid
  /\ ~last.result.success
  /\ \E h \in Handles : /\ sessions[h].received_chunks # <<>>
                        /\ sessions[h].session_id \in DOMAIN active_sessions

(***************************************************************************)
(* What a frame has to be, read from the payload itself: a known format,   *)
(* all required fields, an integer index and total with total > 0 and      *)
(* 0 <= index < total, and a base64 text.                                  *)
(***************************************************************************)
WellFormedBase64(t) ==
  /\ Len(t) % 4 = 0
  /\ \A i \in 1..Len(t) : IsB64Char(t[i])

IndexTotalInBounds(index, total) == total > 0 /\ 0 <= index /\ index < total

Malformed(p) ==
  CASE p.kind = "empty" -> TRUE
    [] p.kind = "text" ->
         \/ ~simple_pattern(p.parts)
         \/ ~IndexTotalInBounds(int_of(p.parts[4]), int_of(p.parts[6]))
         \/ ~WellFormedBase64(join_colon(SubSeq(p.parts, 8, Len(p.parts))))
    [] p.kind = "json" ->
         \/ lower_fmt(p.fmt) \notin {"qrfile/v2", "qrfile/v1"}
         \/ Range(RequiredFields) \ p.has # {}
         \/ {"index", "total"} \ p.ints # {}
         \/ ~IndexTotalInBounds(p.index, p.total)
         \/ ~WellFormedBase64(p.data_b64)

(***************************************************************************)
(* C12: a malformed payload (empty, cut-off JSON, missing field, bad index *)
(* or total, bad base64, unknown format) never aborts reception: parse     *)
(* gives an invalid result with an error message, process_qr_data returns  *)
(* a failure result, and the engine is left as if the payload had never    *)
(* been received, so that a valid frame processed next has the same effect.*)
(***************************************************************************)
C12_MalformedIsDropped ==
  [][ (last'.kind = "process" /\ Malformed(last'.payload))
      => /\ ~last'.parsed.is_valid
         /\ last'.parsed.error # ""
         /\ ~last'.result.success
         /\ sessions' = sessions
         /\ active_sessions' = active_sessions
         /\ completed_sessions' = completed_sessions
         /\ stats' = stats ]_vars

(***************************************************************************)
(* C13: every frame the parser accepts, in any of the three formats, has   *)
(* total_chunks > 0 and 0 <= chunk_index < total_chunks.                   *)
(***************************************************************************)
C13_AcceptedFrameInBounds ==
  (last.kind = "process" /\ last.parsed.is_valid)
    => IndexTotalInBounds(last.parsed.chunk_index, last.parsed.total_chunks)

(***************************************************************************)
(* C14: in every reachable state every session's chunk table has at most   *)
(* total_chunks entries and every stored index lies in [0, total_chunks).  *)
(***************************************************************************)
C14_ChunkTableInBounds ==
  \A h \in Handles :
    /\ Len(sessions[h].received_chunks) <= sessions[h].total_chunks
    /\ chunk_indices(sessions[h]) \subseteq 0..(sessions[h].total_chunks - 1)

(***************************************************************************)
(* Notions for the pipeline runs: the fixed place of every stage, the      *)
(* stages a finished run executed, and what a session declared.            *)
(***************************************************************************)
StageRank(stage) ==
  CASE stage = "assemble" -> 1
    [] stage = "error_correct" -> 2
    [] stage = "decrypt" -> 3
    [] stage = "decompress" -> 4
    [] stage = "verify" -> 5

RunFinished == last.kind = "resume"

Executed(stage) == \E i \in 1..Len(last.stages) : last.stages[i].stage = stage

StageDeclared(stage, session) ==
  CASE stage = "error_correct" -> session.reed_solomon_enabled
    [] stage = "decrypt" -> session.encryption_enabled
    [] stage = "decompress" -> session.compression_algorithm \notin {"", "store"}
    [] OTHER -> TRUE

SupportedAlgorithm(algorithm) ==
  /\ algorithm \in DOMAIN compression_handlers
  /\ compression_handlers[algorithm]

(***************************************************************************)
(* C15: in every pipeline run the stages execute in the fixed order        *)
(* assemble, error-correct, decrypt, decompress, verify: assemble is the   *)
(* first stage of every run, the executed stages follow the order, each    *)
(* stage works on the buffer the previous executed stage gave, a stage     *)
(* that is not declared is not executed, and verification is the last      *)
(* stage and so takes the output of the last executed transform stage.     *)
(***************************************************************************)
C15_StagesInFixedOrder ==
  RunFinished =>
    LET log == last.stages
        session == sessions[last.handle]
    IN  /\ log # <<>>
        /\ log[1].stage = "assemble"
        /\ log[1].output = last.assembled
        /\ \A i, j \in 1..Len(log) :
              i < j => StageRank(log[i].stage) < StageRank(log[j].stage)
        /\ \A i \in 2..Len(log) : log[i].input = log[i - 1].output
        /\ \A i \in 1..Len(log) : StageDeclared(log[i].stage, session)
        /\ Executed("verify") =>
              /\ log[Len(log)].stage = "verify"
              /\ log[Len(log)].input = last.file_data

\* a run that executed all five stages
C15_Witness ==
  /\ RunFinished
  /\ Len(last.stages) = 5
  /\ Executed("error_correct") /\ Executed("decrypt")
  /\ Executed("decompress") /\ Executed("verify")

(***************************************************************************)
(* C16: with no compression algorithm or with "store" the decompress stage *)
(* is not run and the buffer reaches verification as the previous stage    *)
(* left it; with an algorithm that is not registered or not available the  *)
(* stage gives no data, the run ends with the session FAILED, and such a   *)
(* session is never COMPLETED.                                             *)
(***************************************************************************)
C16_UnsupportedAlgorithmFails ==
  /\ \A h \in Handles :
        (/\ sessions[h].compression_algorithm \notin {"", "store"}
         /\ ~SupportedAlgorithm(sessions[h].compression_algorithm))
          => sessions[h].state # "completed"
  /\ RunFinished =>
        LET session == sessions[last.handle]
            log == last.stages
        IN  /\ session.compression_algorithm \in {"", "store"}
                  => /\ ~Executed("decompress")
                     /\ Executed("verify") =>
                           last.file_data = log[Len(log) - 1].output
            /\ (/\ Executed("decompress")
                 /\ ~SupportedAlgorithm(session.compression_algorithm))
                  => /\ log[Len(log)].stage = "decompress"
                     /\ log[Len(log)].output = <<>>
                     /\ last.file_data = <<>>
                     /\ session.state = "failed"

\* a run reached the decompress stage with an algorithm that is not
\* supported, and the session is FAILED
C16_Witness ==
  /\ RunFinished
  /\ Executed("decompress")
  /\ ~SupportedAlgorithm(sessions[last.handle].compression_algorithm)
  /\ sessions[last.handle].state = "failed"

(***************************************************************************)
(* C17: when error correction is declared and its decode fails, the run    *)
(* goes on with the buffer unchanged and a warning recorded, and the       *)
(* failed decode alone does not fail the session: a session that declares  *)
(* nothing else that can fail ends its run COMPLETED.                      *)
(***************************************************************************)
FecOnly(session) ==
  /\ session.reed_solomon_enabled
  /\ ~session.encryption_enabled
  /\ session.compression_algorithm \in {"", "store"}
  /\ session.expected_hash = <<>>

C17_FecFailureIsNotFatal ==
  [][ (last'.kind = "resume"
       /\ \E i \in 1..Len(last'.stages) :
             last'.stages[i].stage = "error_correct")
      => /\ \A i \in 1..Len(last'.stages) :
               last'.stages[i].stage = "error_correct"
                 => last'.stages[i].output = last'.stages[i].input
         /\ \E i \in 1..Len(last'.warnings) :
               last'.warnings[i] = reed_solomon_warnings(<<>>, <<>>)[1]
         /\ (/\ FecOnly(sessions[last'.handle])
              /\ sessions[last'.handle].session_id \in DOMAIN active_sessions)
               => /\ last'.file_data = last'.assembled
                  /\ sessions'[last'.handle].state = "completed" ]_vars

\* a run of a session that declares only error correction executed the
\* stage and the session is COMPLETED
C17_Witness ==
  /\ RunFinished
  /\ Executed("error_correct")
  /\ last.warnings # <<>>
  /\ FecOnly(sessions[last.handle])
  /\ sessions[last.handle].state = "completed"

(***************************************************************************)
(* Notions for the checksum claims: the frame processed last carried a     *)
(* chunk checksum and its index was not stored before; whether its chunk   *)
(* is now in the table of its session.                                     *)
(***************************************************************************)
CheckedFrame ==
  /\ AppliedFrame
  /\ last.parsed.chunk_hash # <<>>
  /\ last.result.message # "Duplicate chunk ignored"

FrameStored ==
  /\ last.parsed.chunk_index \in chunk_indices(sessions[last.handle])
  /\ ChunkBytes(sessions[last.handle], last.parsed.chunk_index)
       = last.parsed.chunk_data

(***************************************************************************)
(* C18: a v2 frame whose chunk_sha256 is a leading part of the SHA-256     *)
(* digest of its chunk bytes (the first 16 hex characters, say) is         *)
(* accepted and stored; one whose chunk_sha256 is not a leading part of    *)
(* the digest, in whatever case it is written, is rejected and not stored. *)
(***************************************************************************)
C18_TruncatedChecksum ==
  (CheckedFrame /\ last.parsed.format_version = "qrfile/v2") =>
    LET digest == sha256_hexdigest[last.parsed.chunk_data]
    IN  /\ TruncatedPrefixMatch(last.parsed.chunk_hash, digest)
              => last.result.success /\ FrameStored
        /\ ~TruncatedPrefixMatch(lower(last.parsed.chunk_hash), digest)
              => /\ ~last.result.success
                 /\ last.parsed.chunk_index
                      \notin chunk_indices(sessions[last.handle])

(***************************************************************************)
(* C19: the checksum comparison ignores case: a frame whose chunk checksum *)
(* is a correct digest prefix written in upper or mixed case is accepted   *)
(* and stored like the lower-case one, and a file checksum written in      *)
(* upper or mixed case that matches the final buffer lets the session      *)
(* complete.                                                               *)
(***************************************************************************)
C19_ChecksumCaseInsensitive ==
  [][ /\ (/\ last'.kind = "process" /\ last'.handle # 0
           /\ last'.parsed.chunk_hash # <<>>
           /\ last'.result.message # "Duplicate chunk ignored"
           /\ TruncatedPrefixMatch(
                 lower(last'.parsed.chunk_hash),
                 sha256_hexdigest[last'.parsed.chunk_data]))
          => /\ last'.result.success
             /\ last'.parsed.chunk_index
                  \in chunk_indices(sessions'[last'.handle])
      /\ (/\ last'.kind = "resume"
           /\ last'.file_data # <<>>
           /\ sessions[last'.handle].expected_hash # <<>>
           /\ sessions[last'.handle].session_id \in DOMAIN active_sessions
           /\ TruncatedPrefixMatch(
                 lower(sessions[last'.handle].expected_hash),
                 sha256_hexdigest[last'.file_data]))
          => sessions'[last'.handle].state = "completed" ]_vars

(***************************************************************************)
(* C20: every result process_qr_data returns for a frame that resolved to  *)
(* a session (accepted, duplicate ignored, integrity failed) carries a     *)
(* success flag, a message and the status snapshot of that session.        *)
(***************************************************************************)
C20_ResultCarriesSnapshot ==
  AppliedFrame =>
    /\ last.result.success \in BOOLEAN
    /\ last.result.key = "message"
    /\ last.result.has_session
    /\ last.result.session.session_id = sessions[last.handle].session_id

(***************************************************************************)
(* C21: the result returned for the frame that completes a session         *)
(* reflects the outcome of the pipeline run the frame triggered: its       *)
(* snapshot reports the terminal state the run reached, and its success    *)
(* flag is false when the run failed.                                      *)
(***************************************************************************)
C21_ResultReflectsOutcome ==
  (last.returned /\ last.triggered) =>
    /\ last.result.has_session
    /\ last.result.session.state = sessions[last.handle].state
    /\ last.result.session.state \in {"completed", "failed"}
    /\ sessions[last.handle].state = "failed" => ~last.result.success

(***************************************************************************)
(* C22: the session identity is a function of (filename or "unknown",      *)
(* total_chunks, file_size or 0) and of nothing else: the session a frame  *)
(* resolves to carries that triple as its identity, and a frame whose      *)
(* triple is the identity of an active session resolves to that session,   *)
(* whatever its other fields are, without creating one.                    *)
(***************************************************************************)
FrameTriple(parsed_data) ==
  << IF parsed_data.filename = "" THEN "unknown" ELSE parsed_data.filename,
     parsed_data.total_chunks,
     parsed_data.file_size >>

C22_IdentityIsTheTriple ==
  [][ (last'.kind = "process" /\ last'.parsed.is_valid)
      => /\ last'.handle \in 1..Len(sessions')
         /\ sessions'[last'.handle].session_id = FrameTriple(last'.parsed)
         /\ FrameTriple(last'.parsed) \in DOMAIN active_sessions
               => /\ last'.handle = active_sessions[FrameTriple(last'.parsed)]
                  /\ ~last'.created
                  /\ Len(sessions') = Len(sessions)
         /\ FrameTriple(last'.parsed) \notin DOMAIN active_sessions
               => last'.created ]_vars

\* a frame resolved to an active session that another frame created, the
\* two differing in index, name spelling or declared stages
C22_Witness ==
  /\ last.kind = "process"
  /\ last.handle # 0
  /\ ~last.created
  /\ last.result.message = "Chunk received"
  /\ \/ last.parsed.filename # sessions[last.handle].filename
     \/ last.parsed.compression_algorithm
          # sessions[last.handle].compression_algorithm

(***************************************************************************)
(* C23: a payload of the sender's simple wire form F:<index>:<total>:      *)
(* <base64> is detected as the simple format and parsed into a valid frame *)
(* with that index, that total and the rest of the text, decoded from      *)
(* base64, as the chunk bytes.                                             *)
(***************************************************************************)
SenderSimpleForm(p) ==
  /\ p.kind = "text"
  /\ Len(p.parts) >= 4
  /\ p.parts[1] = << "F" >>
  /\ IsDigits(p.parts[2])
  /\ IsDigits(p.parts[3])

C23_SenderSimpleFormParsed ==
  (last.kind = "process" /\ SenderSimpleForm(last.payload)) =>
    /\ last.parsed.is_valid
    /\ last.parsed.format_version = "simple"
    /\ last.parsed.chunk_index = int_of(last.payload.parts[2])
    /\ last.parsed.total_chunks = int_of(last.payload.parts[3])
    /\ last.parsed.chunk_data
         = b64decode(join_colon(SubSeq(last.payload.parts, 4,
                                       Len(last.payload.parts))))

(***************************************************************************)
(* C24: round trip.  The chunks of data that a reference sender            *)
(* compressed, encrypted, FEC-encoded and chunked, fed in any order, give  *)
(* a COMPLETED session whose final buffer is the original data.            *)
(***************************************************************************)
RoundTripSession(session) ==
  /\ session.filename = "r"
  /\ b64decode(encoded_0_b64) \o b64decode(encoded_1_b64) = encoded_data

C24_RoundTrip ==
  (RunFinished /\ RoundTripSession(sessions[last.handle])) =>
    /\ sessions[last.handle].state = "completed"
    /\ last.file_data = original_data

(***************************************************************************)
(* C25: v1 frames without checksums that cover the indices 0..total-1      *)
(* exactly once, for any total >= 1 and any chunk bytes (empty chunks      *)
(* included), with no stage declared, end in a COMPLETED session whose     *)
(* final buffer is the chunk bytes concatenated in index order.            *)
(***************************************************************************)
PlainV1Covered(session) ==
  /\ session.format_version = "qrfile/v1"
  /\ session.total_chunks >= 1
  /\ chunk_indices(session) = 0..(session.total_chunks - 1)
  /\ \A i \in 1..Len(session.received_chunks) :
        session.received_chunks[i].hash = <<>>
  /\ session.runs = 1

C25_PlainV1Completes ==
  /\ \A h \in Handles :
        (PlainV1Covered(sessions[h]) /\ Terminal(sessions[h]))
          => sessions[h].state = "completed"
  /\ (RunFinished /\ PlainV1Covered(sessions[last.handle]))
        => last.file_data
             = ConcatInIndexOrder(sessions[last.handle],
                                  sessions[last.handle].total_chunks)

(***************************************************************************)
(* C26: whenever a session is COMPLETED its reconstructed buffer has been  *)
(* handed to the save collaborator exactly once, and no buffer is ever     *)
(* handed over for a session that ends FAILED.                             *)
(***************************************************************************)
C26_SavedExactlyOnce ==
  \A h \in Handles :
    /\ sessions[h].state = "completed" => Len(sessions[h].saved) = 1
    /\ sessions[h].state = "failed" => sessions[h].saved = <<>>

(***************************************************************************)
(* C27: session creation on the first frame is atomic.  Under any          *)
(* interleaving of process_qr_data calls a step creates at most one        *)
(* session object, only for an identity that has no active session, and    *)
(* counts it once in total_sessions; and the frames that arrive for a      *)
(* brand-new identity, one that had no session object before, are applied  *)
(* to one and the same session: no second session object of that identity  *)
(* exists until the first has reached a terminal state.                    *)
(***************************************************************************)
\* the session at handle i is the first one of its identity
FirstOfIdentity(all_sessions, i) ==
  \A k \in 1..(i - 1) : all_sessions[k].session_id # all_sessions[i].session_id

C27_CreationIsAtomic ==
  [][ /\ Len(sessions') \in {Len(sessions), Len(sessions) + 1}
      /\ stats'.total_sessions = Len(sessions')
      /\ Len(sessions') = Len(sessions) + 1
            => sessions'[Len(sessions')].session_id
                 \notin DOMAIN active_sessions
      /\ \A i, j \in 1..Len(sessions') :
            (/\ i < j
             /\ FirstOfIdentity(sessions', i)
             /\ sessions'[i].session_id = sessions'[j].session_id)
              => Terminal(sessions'[i]) ]_vars

\* while one call is suspended in the pipeline of a session, the frame of
\* another call for the same identity resolved to that session and no
\* second session object exists
C27_Witness ==
  /\ last.kind = "process"
  /\ last.handle # 0
  /\ ~last.created
  /\ Len(sessions) = 1
  /\ stats.total_sessions = 1
  /\ \E c \in Calls : /\ c # last.call
                       /\ pc[c] = "assembling"
                       /\ frame[c].session = last.handle

(***************************************************************************)
(* C28: cleanup_old_sessions removes from the completed/failed table       *)
(* exactly the sessions whose last_activity is older than the cutoff and   *)
(* returns their number; a terminal session that is not older stays, and   *)
(* no session object and no entry of the active table is touched.          *)
(***************************************************************************)
C28_CleanupRemovesExactlyTheOld ==
  [][ last'.kind = "cleanup"
      => LET cutoff == now - (last'.max_age_hours * 3600)
             old == { id \in DOMAIN completed_sessions :
                        sessions[completed_sessions[id]].last_activity
                          < cutoff }
         IN  /\ DOMAIN completed_sessions' = DOMAIN completed_sessions \ old
             /\ \A id \in DOMAIN completed_sessions' :
                   completed_sessions'[id] = completed_sessions[id]
             /\ last'.cleaned = Cardinality(old)
             /\ active_sessions' = active_sessions
             /\ sessions' = sessions
             /\ stats' = stats ]_vars

\* a cleanup removed an old terminal session and left a younger terminal
\* session and an active session in place
C28_Witness ==
  /\ last.kind = "cleanup"
  /\ last.cleaned >= 1
  /\ DOMAIN completed_sessions # {}
  /\ DOMAIN active_sessions # {}

(***************************************************************************)
(* C29: a process_qr_data call for a frame of identity A, in its step up   *)
(* to the suspension and in its step after it, whether the frame is        *)
(* stored, a duplicate or rejected by its checksum and whether the         *)
(* pipeline succeeds or fails, leaves every session of another identity    *)
(* as it was: its chunk table, state and counters, and its entry in the    *)
(* active and the completed table.                                         *)
(***************************************************************************)
SameEntries(table_before, table_after, A) ==
  \A id \in (DOMAIN table_before \cup DOMAIN table_after) \ {A} :
     /\ id \in DOMAIN table_before
     /\ id \in DOMAIN table_after
     /\ table_after[id] = table_before[id]

C29_OtherIdentitiesUntouched ==
  [][ (last'.kind \in {"process", "resume"} /\ last'.handle # 0)
      => LET A == sessions'[last'.handle].session_id
         IN  /\ \A i \in Handles :
                   sessions[i].session_id # A => sessions'[i] = sessions[i]
             /\ SameEntries(active_sessions, active_sessions', A)
             /\ SameEntries(completed_sessions, completed_sessions', A) ]_vars

\* the pipeline of one session has ended while a session of another identity
\* that holds a chunk is in the active table
C29_Witness ==
  /\ last.kind = "resume"
  /\ last.handle # 0
  /\ \E id \in DOMAIN active_sessions :
        /\ id # sessions[last.handle].session_id
        /\ sessions[active_sessions[id]].received_chunks # <<>>

(***************************************************************************)
(* C30: in every reachable state, a session for which is_complete() holds  *)
(* stores exactly the indices 0 .. total_chunks - 1, so that the gap check *)
(* of _validate_chunks finds no missing index, whatever the format of the  *)
(* accepted frames.                                                        *)
(***************************************************************************)
C30_CompleteMeansAllIndices ==
  \A h \in Handles :
    is_complete(sessions[h])
      => /\ chunk_indices(sessions[h]) = 0..(sessions[h].total_chunks - 1)
         /\ validate_chunks(sessions[h])

(***************************************************************************)
(* C31: under any interleaving of process_qr_data calls the state of a     *)
(* session only moves forward along idle, receiving, assembling,           *)
(* verifying, then completed or failed: no step moves it backwards and no  *)
(* step changes the state of a session that is completed or failed.        *)
(***************************************************************************)
StateRank(state) ==
  CASE state = "idle" -> 0
    [] state = "receiving" -> 1
    [] state = "assembling" -> 2
    [] state = "verifying" -> 3
    [] state \in {"completed", "failed"} -> 4

C31_StateMovesForward ==
  [][ \A h \in Handles :
        /\ StateRank(sessions'[h].state) >= StateRank(sessions[h].state)
        /\ Terminal(sessions[h]) => sessions'[h].state = sessions[h].state
    ]_vars

(***************************************************************************)
(* The engine on a fair event loop, receiving the frames of one transfer   *)
(* repeatedly: a coroutine suspended in the sleep of _assemble_chunks is   *)
(* resumed after finitely many steps of the others.                        *)
(***************************************************************************)
MaxRestartCalls == 5

InitRestart == InitIn({ "restart" })

NextRestart ==
  \/ \E c \in Calls : \E p \in Inputs(scenario) :
        ProcessUpTo(c, p, MaxRestartCalls)
  \/ \E c \in Calls : Resume(c)

SpecRestart ==
  InitRestart /\ [][NextRestart]_vars /\ \A c \in Calls : WF_vars(Resume(c))

\* the session object at handle h is the entry of its identity in the table
InTable(table, h) ==
  \E id \in DOMAIN table : table[id] = h

\* since the session was created, a frame that passes the chunk checksum was
\* processed for every index 0 .. total_chunks - 1 of its transfer
EveryIndexProcessed(session) ==
  /\ session.total_chunks > 0
  /\ 0..(session.total_chunks - 1) \subseteq session.offered

(***************************************************************************)
(* C32: when, for the transfer of a session, a frame with a matching or    *)
(* absent chunk checksum has been processed for every index                *)
(* 0 .. total_chunks - 1, then on a fair event loop the session reaches    *)
(* completed or failed and is taken out of the active table and put into   *)
(* the completed table.                                                    *)
(***************************************************************************)
C32_ProcessedTransferEnds ==
  \A h \in 1..MaxRestartCalls :
    (h \in Handles /\ EveryIndexProcessed(sessions[h])
                   /\ ~Terminal(sessions[h]))
      ~> (/\ h \in Handles
          /\ Terminal(sessions[h])
          /\ InTable(completed_sessions, h)
          /\ ~InTable(active_sessions, h))

(***************************************************************************)
(* C33: when a session declares error correction and a decoder is          *)
(* available, the error-correct stage hands on the decoder's output        *)
(* whenever the decode succeeds: for a buffer that is a code word of the   *)
(* declared code the next stage gets the decoded data, not the code word.  *)
(***************************************************************************)
C33_DecoderOutputPassedOn ==
  [][ last'.kind = "resume"
      => \A i \in 1..Len(last'.stages) :
            (/\ last'.stages[i].stage = "error_correct"
             /\ is_code_word(last'.stages[i].input))
              => last'.stages[i].output = fec_decode(last'.stages[i].input)
    ]_vars

(***************************************************************************)
(* C34: a session is created RECEIVING with total_chunks, expected_size,   *)
(* expected_hash, compression algorithm, encryption flag, FEC flag and     *)
(* format taken from its first frame, and no later step changes any of     *)
(* them, even when a later frame of the session carries other metadata.    *)
(***************************************************************************)
ExpectedValues(session) ==
  << session.total_chunks, session.expected_size, session.expected_hash,
     session.compression_algorithm, session.encryption_enabled,
     session.reed_solomon_enabled, session.format_version >>

FrameMetadata(parsed_data) ==
  << parsed_data.total_chunks, parsed_data.file_size, parsed_data.file_hash,
     parsed_data.compression_algorithm, parsed_data.encryption_enabled,
     parsed_data.reed_solomon_enabled, parsed_data.format_version >>

C34_ExpectedValuesFromFirstFrame ==
  [][ /\ (last'.kind = "process" /\ last'.created)
         => /\ ExpectedValues(sessions'[last'.handle])
                 = FrameMetadata(last'.parsed)
            /\ ~last'.triggered
                 => sessions'[last'.handle].state = "receiving"
            /\ last'.result.has_session
                 => last'.result.session.state = "receiving"
      /\ \A h \in Handles :
            ExpectedValues(sessions'[h]) = ExpectedValues(sessions[h])
    ]_vars

\* a frame whose metadata differs from the session's expected values has
\* been stored in a session that an earlier frame created
C34_Witness ==
  /\ last.kind = "process"
  /\ last.handle # 0
  /\ ~last.created
  /\ last.result.success
  /\ last.parsed.chunk_index \in chunk_indices(sessions[last.handle])
  /\ Len(sessions[last.handle].received_chunks) >= 2
  /\ sessions[last.handle].received_chunks[
        Len(sessions[last.handle].received_chunks)].index
       = last.parsed.chunk_index
  /\ FrameMetadata(last.parsed) # ExpectedValues(sessions[last.handle])

(***************************************************************************)
(* C35: in the session snapshot that process_qr_data returns for an        *)
(* accepted frame the progress percentage is the one of the chunk count of *)
(* the same snapshot: chunks_received / total_chunks * 100, rounded to one *)
(* decimal.                                                                *)
(***************************************************************************)
C35_PercentageMatchesChunkCount ==
  (/\ last.kind = "process"
   /\ last.result.success
   /\ last.result.has_session
   /\ last.result.session.total_chunks > 0)
    => last.result.session.percentage
         = round_1(<< last.result.session.chunks_received * 100,
                      last.result.session.total_chunks >>)

(***************************************************************************)
(* C36: in every reachable state the two tables agree with the states of   *)
(* the sessions: a session in the active table is not completed or failed, *)
(* a completed or failed session is in the completed table and not in the  *)
(* active table, and no session object is in both tables.  The sessions    *)
(* meant are the objects the engine still holds: those in a table and      *)
(* those a suspended process_qr_data call is working on.                   *)
(***************************************************************************)
Held(h) ==
  \/ InTable(active_sessions, h)
  \/ InTable(completed_sessions, h)
  \/ \E c \in Calls : pc[c] = "assembling" /\ frame[c].session = h

C36_TablesMatchStates ==
  \A h \in Handles :
    Held(h)
      => /\ InTable(active_sessions, h) => ~Terminal(sessions[h])
         /\ Terminal(sessions[h])
              => /\ InTable(completed_sessions, h)
                 /\ ~InTable(active_sessions, h)
         /\ ~(InTable(active_sessions, h) /\ InTable(completed_sessions, h))

(***************************************************************************)
(* C37: in every reachable state bytes_received of every session is the    *)
(* sum of the lengths of the chunks stored in its chunk table, and for a   *)
(* session whose pipeline has ended it is the length of the buffer the     *)
(* assemble stage produced.                                                *)
(***************************************************************************)
RECURSIVE StoredLength(_)
StoredLength(received_chunks) ==
  IF received_chunks = <<>> THEN 0
  ELSE Len(received_chunks[1].data) + StoredLength(Tail(received_chunks))

BytesReceivedIsStoredLength ==
  \A h \in Handles :
    sessions[h].bytes_received = StoredLength(sessions[h].received_chunks)

C37_BytesReceivedMatches ==
  /\ BytesReceivedIsStoredLength
  /\ (last.kind = "resume" /\ Terminal(sessions[last.handle]))
       => Len(last.assembled) = sessions[last.handle].bytes_received

(***************************************************************************)
(* C38: in every reachable state the engine statistics are consistent:     *)
(* every session is counted at most once in completed_sessions +           *)
(* failed_sessions, so that their sum is at most total_sessions, and       *)
(* total_chunks_received is the number of chunks stored over all the       *)
(* sessions ever created.                                                  *)
(***************************************************************************)
RECURSIVE ChunksStored(_)
ChunksStored(all_sessions) ==
  IF all_sessions = <<>> THEN 0
  ELSE Len(all_sessions[1].received_chunks) + ChunksStored(Tail(all_sessions))

ChunkCountIsChunksStored ==
  stats.total_chunks_received = ChunksStored(sessions)

C38_StatisticsConsistent ==
  /\ stats.completed_sessions + stats.failed_sessions <= stats.total_sessions
  /\ ChunkCountIsChunksStored

(***************************************************************************)
(* C39: in every reachable state, for every session, failed_chunks and the *)
(* keys of the chunk table are disjoint: an index that failed its          *)
(* integrity check and was then resupplied and stored is no longer counted *)
(* as a failed chunk in the status snapshot.                               *)
(***************************************************************************)
C39_FailedChunksNotStored ==
  \A h \in Handles :
    /\ sessions[h].failed_chunks \cap chunk_indices(sessions[h]) = {}
    /\ get_status_summary(sessions[h]).failed_chunks
         = Cardinality(sessions[h].failed_chunks \ chunk_indices(sessions[h]))

====
